---- MODULE Spec2Model ----
(***************************************************************************)
(* Model of main.py: the PaddleOCR -> ONNX conversion script.             *)
(*                                                                         *)
(* The script runs, for the two model kinds Detection and Recognition in  *)
(* that order, the pipeline extract_tar -> paddle_to_onnx -> validate_onnx *)
(* (convert_models), inside one try/except in main().  The file system,    *)
(* the external converter process and the onnx library are the            *)
(* environment: their outcomes are chosen nondeterministically.           *)
(* Log messages, paths and error texts are modelled as the strings the     *)
(* code builds.                                                            *)
(***************************************************************************)
EXTENDS Integers, Sequences, FiniteSets, TLC

VARIABLES
    pc,        \* position of the run: see PcValues
    kind,      \* index into KINDS of the model kind being processed
    exitCode,  \* process exit status, NoExit while the process runs
    fs,        \* names of the entries that exist in MODEL_DIR
    archive,   \* archive[k]: state of the tar file of kind k (immutable)
    onnx,      \* onnx[k]: the output file of kind k, or Absent
    log,       \* messages passed to log(), in order
    trace,     \* history: stage events <<kind, stage, event>>
    procs,     \* history: results of subprocess.run, in order
    rets,      \* history: outcomes of the extract_tar calls, in order
    opens,     \* history: number of tarfile.open calls made
    extractions \* history: number of tar.extractall calls performed

vars == <<pc, kind, exitCode, fs, archive, onnx, log, trace, procs, rets, opens, extractions>>

-----------------------------------------------------------------------------
(* Bounds of the model *)

\* largest number of declared graph inputs (and of outputs) of a model file
MaxIO == 2

\* number of successive extract_tar calls in the extraction harness
MaxCalls == 2

-----------------------------------------------------------------------------
(* Strings and paths *)

\* s contains t as a substring
Contains(s, t) ==
    \E i \in 1..(Len(s) - Len(t) + 1) : SubSeq(s, i, i + Len(t) - 1) = t

\* s starts with t
StartsWith(s, t) == Len(s) >= Len(t) /\ SubSeq(s, 1, Len(t)) = t

\* c repeated n times
RECURSIVE Rep(_, _)
Rep(c, n) == IF n = 0 THEN "" ELSE c \o Rep(c, n - 1)

\* pathlib: a path is [parent, name]; str(p) joins them
PathStr(p) == p.parent \o "/" \o p.name

\* pathlib '/' operator on a directory given as a string
Join(dir, name) == [parent |-> dir, name |-> name]

\* position of the last "." of a file name that is not its first character, 0 if none
LastDot(name) ==
    LET dots == {i \in 2..Len(name) : SubSeq(name, i, i) = "."}
    IN  IF dots = {} THEN 0 ELSE CHOOSE i \in dots : \A j \in dots : j <= i

\* Path.stem: the final component without its last suffix
Stem(p) ==
    LET d == LastDot(p.name)
    IN  IF d = 0 \/ d = Len(p.name) THEN p.name ELSE SubSeq(p.name, 1, d - 1)

BASE_DIR == "."
MODEL_DIR == BASE_DIR \o "/PP_OCR_models"
OUTPUT_DIR == BASE_DIR \o "/output"
OUTPUT_VALIDATE_DIR == BASE_DIR \o "/validation"
LOG_FILE == Join(OUTPUT_VALIDATE_DIR, "onnx_validation.log")

DET_TAR == Join(MODEL_DIR, "ch_PP-OCRv4_det_infer.tar")
REC_TAR == Join(MODEL_DIR, "ch_PP-OCRv4_rec_infer.tar")
DET_ONNX == Join(OUTPUT_DIR, "det.onnx")
REC_ONNX == Join(OUTPUT_DIR, "rec.onnx")

OPSET == 11

\* width of the '=' rule of the section header
RULE_WIDTH == 60

\* '=' * 60
Rule == Rep("=", RULE_WIDTH)

\* the text convert_models logs first
Header(name) == "\n" \o Rule \o "\nConverting " \o name \o " Model\n" \o Rule

\* the three arguments of the two convert_models calls of main, in order
KINDS == << [tar |-> DET_TAR, out |-> DET_ONNX, name |-> "Detection"],
            [tar |-> REC_TAR, out |-> REC_ONNX, name |-> "Recognition"] >>

KindIds == 1..Len(KINDS)

-----------------------------------------------------------------------------
(* The environment: archives, directory entries, model files, processes *)

\* names a top-level entry of MODEL_DIR can have
EntryNames == {Stem(DET_TAR), Stem(REC_TAR), "inference"}

\* the entries of MODEL_DIR the script looks for
StemNames == {Stem(DET_TAR), Stem(REC_TAR)}

\* a tar file: absent, not a tar archive, or an archive with one top-level
\* entry, named after the archive or not
ArchiveStates(tar_path) ==
    {[state |-> "missing", top |-> ""], [state |-> "malformed", top |-> ""]}
        \cup {[state |-> "ok", top |-> e] : e \in {Stem(tar_path), "inference"}}

Archives == {a \in [KindIds -> UNION {ArchiveStates(KINDS[k].tar) : k \in KindIds}] :
                \A k \in KindIds : a[k] \in ArchiveStates(KINDS[k].tar)}

\* declared graph inputs and outputs (model.graph.input / model.graph.output)
InputPool == << "x", "x2", "x3", "x4" >>
OutputPool == << "y", "y2", "y3", "y4" >>
TensorType == "tensor_type { elem_type: 1 }"
Tensors(pool, n) == [i \in 1..n |-> [name |-> pool[i], type |-> TensorType]]

\* st_size values of the files: 2.5 MiB, 0.125 MiB and the empty file
BigSize == 5 * 512 * 1024
SmallSize == 128 * 1024

Absent == [size |-> -1, status |-> "absent", inputs |-> << >>, outputs |-> << >>]

\* what onnx.load and onnx.checker.check_model make of a file that exists
ModelFiles ==
    {[size |-> BigSize, status |-> "valid", inputs |-> Tensors(InputPool, n),
      outputs |-> Tensors(OutputPool, m)] : n \in 0..MaxIO, m \in 0..MaxIO}
    \cup {[size |-> 0, status |-> "unloadable", inputs |-> << >>, outputs |-> << >>],
          [size |-> SmallSize, status |-> "invalid", inputs |-> << >>, outputs |-> << >>]}

\* a file left in OUTPUT_DIR by an earlier run
StaleFile == [size |-> SmallSize, status |-> "valid", inputs |-> Tensors(InputPool, 1),
              outputs |-> Tensors(OutputPool, 1)]

\* OUTPUT_DIR before the run: empty, or with both files of an earlier run
OutputDirs == {[k \in KindIds |-> f] : f \in {Absent, StaleFile}}

StderrTexts == {"", "missing op"}

\* results of subprocess.run(cmd, capture_output=True, text=True): the
\* executable cannot be started (subprocess.run raises), or the process ends
\* with a return code; writes is the output file it leaves, NoWrite if it leaves
\* the file as it was
NoWrite == [size |-> -2, status |-> "nowrite", inputs |-> << >>, outputs |-> << >>]
ProcOutcomes ==
    {[launched |-> FALSE, returncode |-> -1, stdout |-> "", stderr |-> "", writes |-> NoWrite]}
    \cup {[launched |-> TRUE, returncode |-> rc, stdout |-> "", stderr |-> e, writes |-> NoWrite] :
            rc \in {1, 2}, e \in StderrTexts}
    \cup {[launched |-> TRUE, returncode |-> 0, stdout |-> "", stderr |-> e, writes |-> w] :
            e \in {""}, w \in ModelFiles \cup {NoWrite}}

-----------------------------------------------------------------------------
(* The functions of main.py.  Each returns [raised, text, ...]: raised says *)
(* whether an exception left the function, text is str(exception).          *)

\* run_cmd raising RuntimeError(error_msg), without the captured stderr
run_cmd_DropsStderr(proc, error_msg) ==
    IF ~proc.launched
    THEN [raised |-> TRUE, text |-> "[Errno 2] No such file or directory: 'paddle2onnx'"]
    ELSE IF proc.returncode # 0
    THEN [raised |-> TRUE, text |-> error_msg]
    ELSE [raised |-> FALSE, text |-> proc.stdout]

\* run_cmd without the test of result.returncode
run_cmd_IgnoresReturnCode(proc, error_msg) ==
    IF ~proc.launched
    THEN [raised |-> TRUE, text |-> "[Errno 2] No such file or directory: 'paddle2onnx'"]
    ELSE [raised |-> FALSE, text |-> proc.stdout]

\* run_cmd(cmd, error_msg)
run_cmd(proc, error_msg) ==
    IF ~proc.launched
    THEN [raised |-> TRUE, text |-> "[Errno 2] No such file or directory: 'paddle2onnx'"]
    ELSE IF proc.returncode # 0
    THEN [raised |-> TRUE, text |-> error_msg \o "\n" \o proc.stderr]
    ELSE [raised |-> FALSE, text |-> proc.stdout]

\* extract_tar without the test of extract_path.exists()
extract_tar_NoCheck(tar_path, dest, entries, arc) ==
    LET model_name == Stem(tar_path)
        extract_path == Join(dest, model_name)
    IN  IF arc.state = "missing"
        THEN [raised |-> TRUE,
              text |-> "[Errno 2] No such file or directory: '" \o PathStr(tar_path) \o "'",
              path |-> extract_path, fs |-> entries, opened |-> 1, extracted |-> 0,
              logs |-> << "Extracting " \o tar_path.name \o "..." >>]
        ELSE IF arc.state = "malformed"
        THEN [raised |-> TRUE, text |-> "file could not be opened successfully",
              path |-> extract_path, fs |-> entries, opened |-> 1, extracted |-> 0,
              logs |-> << "Extracting " \o tar_path.name \o "..." >>]
        ELSE [raised |-> FALSE, text |-> "", path |-> extract_path,
              fs |-> entries \cup {arc.top}, opened |-> 1, extracted |-> 1,
              logs |-> << "Extracting " \o tar_path.name \o "...",
                          "Extracted to " \o PathStr(extract_path) >>]

\* extract_tar(tar_path, dest), with dest's entries entries and the archive arc
extract_tar(tar_path, dest, entries, arc) ==
    LET model_name == Stem(tar_path)
        extract_path == Join(dest, model_name)
    IN  IF model_name \in entries
        THEN [raised |-> FALSE, text |-> "", path |-> extract_path, fs |-> entries,
              opened |-> 0, extracted |-> 0,
              logs |-> << "Already extracted: " \o model_name >>]
        ELSE IF arc.state = "missing"
        THEN [raised |-> TRUE,
              text |-> "[Errno 2] No such file or directory: '" \o PathStr(tar_path) \o "'",
              path |-> extract_path, fs |-> entries, opened |-> 1, extracted |-> 0,
              logs |-> << "Extracting " \o tar_path.name \o "..." >>]
        ELSE IF arc.state = "malformed"
        THEN [raised |-> TRUE, text |-> "file could not be opened successfully",
              path |-> extract_path, fs |-> entries, opened |-> 1, extracted |-> 0,
              logs |-> << "Extracting " \o tar_path.name \o "..." >>]
        ELSE [raised |-> FALSE, text |-> "", path |-> extract_path,
              fs |-> entries \cup {arc.top}, opened |-> 1, extracted |-> 1,
              logs |-> << "Extracting " \o tar_path.name \o "...",
                          "Extracted to " \o PathStr(extract_path) >>]

\* the argument vector paddle_to_onnx builds
PaddleCmd(paddle_dir, onnx_out) ==
    << "paddle2onnx",
       "--model_dir", PathStr(paddle_dir),
       "--model_filename", "inference.pdmodel",
       "--params_filename", "inference.pdiparams",
       "--save_file", PathStr(onnx_out),
       "--opset_version", ToString(OPSET),
       "--enable_onnx_checker", "True" >>

MIB == 1024 * 1024

\* the size in units of 10^6 bytes instead of 2^20
SizeMB_Decimal(bytes) ==
    LET h == (bytes + 5000) \div 10000
        frac == h % 100
    IN  ToString(h \div 100) \o "." \o (IF frac < 10 THEN "0" ELSE "") \o ToString(frac)

\* f"{st_size / (1024 ** 2):.2f}": the quotient is exact in binary floating
\* point, and the format rounds it to hundredths, ties to even
SizeMB(bytes) ==
    LET n == bytes * 100
        q == n \div MIB
        r == n % MIB
        h == IF 2 * r > MIB \/ (2 * r = MIB /\ q % 2 = 1) THEN q + 1 ELSE q
        frac == h % 100
    IN  ToString(h \div 100) \o "." \o (IF frac < 10 THEN "0" ELSE "") \o ToString(frac)

\* paddle_to_onnx(paddle_dir, onnx_out), with the process result proc and the
\* output file before the call; file is the output file after the call
paddle_to_onnx(paddle_dir, onnx_out, proc, before) ==
    LET started == << "Converting " \o onnx_out.name \o " to ONNX..." >>
        ran == run_cmd(proc, "Paddle to ONNX conversion failed")
        after == IF proc.launched /\ proc.writes # NoWrite THEN proc.writes ELSE before
    IN  IF ran.raised
        THEN [raised |-> TRUE, text |-> ran.text, file |-> after, logs |-> started]
        ELSE IF after = Absent
        THEN [raised |-> TRUE,
              text |-> "[Errno 2] No such file or directory: '" \o PathStr(onnx_out) \o "'",
              file |-> after, logs |-> started]
        ELSE [raised |-> FALSE, text |-> "", file |-> after,
              logs |-> Append(started, "ONNX model saved: " \o PathStr(onnx_out)
                                  \o " (" \o SizeMB(after.size) \o " MB)")]

\* the log lines of one "for t in tensors: log(...)" loop
TensorLines(tensors) == [i \in 1..Len(tensors) |->
                            "  " \o tensors[i].name \o ": " \o tensors[i].type]

\* str(e) of what onnx.load / check_model raise on a file
ValidationError(onnx_file, file) ==
    IF file.status = "absent"
    THEN "[Errno 2] No such file or directory: '" \o PathStr(onnx_file) \o "'"
    ELSE IF file.status = "unloadable" THEN "Error parsing message"
    ELSE "No Op registered for Unknown with domain_version of 11"

\* validate_onnx whose second loop runs over model.graph.input again
validate_onnx_InputsTwice(onnx_file, file) ==
    LET started == << "Validating " \o onnx_file.name \o "..." >>
    IN  IF file.status = "valid"
        THEN [raised |-> FALSE, text |-> "",
              logs |-> started \o << "[OK] " \o onnx_file.name \o " is valid" >>
                       \o << "Inputs:" >> \o TensorLines(file.inputs)
                       \o << "Outputs:" >> \o TensorLines(file.inputs)]
        ELSE [raised |-> FALSE, text |-> "",
              logs |-> Append(started, "[ERROR] " \o onnx_file.name
                          \o " failed validation: " \o ValidationError(onnx_file, file))]

\* validate_onnx without its try/except
validate_onnx_Unguarded(onnx_file, file) ==
    LET started == << "Validating " \o onnx_file.name \o "..." >>
    IN  IF file.status = "valid"
        THEN [raised |-> FALSE, text |-> "",
              logs |-> started \o << "[OK] " \o onnx_file.name \o " is valid" >>
                       \o << "Inputs:" >> \o TensorLines(file.inputs)
                       \o << "Outputs:" >> \o TensorLines(file.outputs)]
        ELSE [raised |-> TRUE, text |-> ValidationError(onnx_file, file), logs |-> started]

\* validate_onnx(onnx_file), with the file as it is on disk
validate_onnx(onnx_file, file) ==
    LET started == << "Validating " \o onnx_file.name \o "..." >>
    IN  IF file.status = "valid"
        THEN [raised |-> FALSE, text |-> "",
              logs |-> started \o << "[OK] " \o onnx_file.name \o " is valid" >>
                       \o << "Inputs:" >> \o TensorLines(file.inputs)
                       \o << "Outputs:" >> \o TensorLines(file.outputs)]
        ELSE [raised |-> FALSE, text |-> "",
              logs |-> Append(started, "[ERROR] " \o onnx_file.name
                          \o " failed validation: " \o ValidationError(onnx_file, file))]

-----------------------------------------------------------------------------
(* The run of main() *)

NoExit == -1

PcValues == {"NotStarted", "Entering", "Extracting", "Converting", "Validating",
             "Completing", "Done", "Failed", "Harness"}

Last(seq) == seq[Len(seq)]

Event(k, stage, ev) == << k, stage, ev >>

Init ==
    /\ pc = "NotStarted"
    /\ kind = 1
    /\ exitCode = NoExit
    /\ fs \in SUBSET StemNames
    /\ archive \in Archives
    /\ onnx \in OutputDirs
    /\ log = << >>
    /\ trace = << >>
    /\ procs = << >>
    /\ rets = << >>
    /\ opens = 0
    /\ extractions = 0

\* a handler that logs the error and lets the script end normally
MainExcept_NoExit(e, pending, evs) ==
    /\ log' = (log \o pending) \o << "[ERROR] Conversion failed: " \o e >>
    /\ trace' = trace \o evs
    /\ exitCode' = 0
    /\ pc' = "Failed"
    /\ kind' = kind

\* a handler that runs the failed stage a second time before it gives up
MainExcept_RetriesOnce(e, pending, evs) ==
    /\ log' = (log \o pending) \o << "[ERROR] Conversion failed: " \o e >>
    /\ trace' = trace \o evs
    /\ kind' = kind
    /\ IF \E i \in 1..Len(trace) : trace[i][3] = "raise"
       THEN pc' = "Failed" /\ exitCode' = 1
       ELSE pc' = pc /\ exitCode' = exitCode

\* a handler placed around each convert_models call instead of around both
MainExcept_PerKind(e, pending, evs) ==
    /\ log' = (log \o pending) \o << "[ERROR] Conversion failed: " \o e >>
    /\ trace' = trace \o evs
    /\ IF kind < Len(KINDS)
       THEN pc' = "Entering" /\ kind' = kind + 1 /\ exitCode' = exitCode
       ELSE pc' = "Failed" /\ kind' = kind /\ exitCode' = 1

\* main, "except Exception as e": an exception with text e leaves
\* convert_models after it logged the lines pending and recorded the events evs
MainExcept(e, pending, evs) ==
    /\ log' = (log \o pending) \o << "[ERROR] Conversion failed: " \o e >>
    /\ trace' = trace \o evs
    /\ exitCode' = 1
    /\ pc' = "Failed"
    /\ kind' = kind

\* main: the banner, up to the first call of convert_models
Main_Start ==
    /\ pc = "NotStarted"
    /\ log' = Append(log, "PaddleOCR Model Converter (ONNX only) - <now>\n")
    /\ pc' = "Entering"
    /\ UNCHANGED << kind, exitCode, fs, archive, onnx, trace, procs, rets, opens, extractions >>

\* convert_models: the section header
ConvertModels_Enter ==
    /\ pc = "Entering"
    /\ log' = Append(log, Header(KINDS[kind].name))
    /\ pc' = "Extracting"
    /\ UNCHANGED << kind, exitCode, fs, archive, onnx, trace, procs, rets, opens, extractions >>

\* convert_models: paddle_dir = extract_tar(tar_path, MODEL_DIR)
ConvertModels_Extract ==
    /\ pc = "Extracting"
    /\ LET r == extract_tar(KINDS[kind].tar, MODEL_DIR, fs, archive[kind])
       IN  /\ fs' = r.fs
           /\ opens' = opens + r.opened
           /\ extractions' = extractions + r.extracted
           /\ rets' = Append(rets, [raised |-> r.raised, path |-> r.path])
           /\ IF r.raised
              THEN MainExcept(r.text, r.logs,
                              << Event(kind, "Extracting", "start"),
                                 Event(kind, "Extracting", "raise") >>)
              ELSE /\ log' = log \o r.logs
                   /\ trace' = trace \o << Event(kind, "Extracting", "start"),
                                           Event(kind, "Extracting", "end") >>
                   /\ pc' = "Converting"
                   /\ UNCHANGED << kind, exitCode >>
    /\ UNCHANGED << archive, onnx, procs >>

\* convert_models: paddle_to_onnx(paddle_dir, output_onnx)
ConvertModels_Convert ==
    /\ pc = "Converting"
    /\ \E proc \in ProcOutcomes :
        LET paddle_dir == Last(rets).path
            r == paddle_to_onnx(paddle_dir, KINDS[kind].out, proc, onnx[kind])
        IN  /\ onnx' = [onnx EXCEPT ![kind] = r.file]
            /\ procs' = Append(procs, [cmd |-> PaddleCmd(paddle_dir, KINDS[kind].out),
                                       launched |-> proc.launched,
                                       returncode |-> proc.returncode,
                                       stderr |-> proc.stderr])
            /\ IF r.raised
               THEN MainExcept(r.text, r.logs,
                               << Event(kind, "Converting", "start"),
                                  Event(kind, "Converting", "raise") >>)
               ELSE /\ log' = log \o r.logs
                    /\ trace' = trace \o << Event(kind, "Converting", "start"),
                                            Event(kind, "Converting", "end") >>
                    /\ pc' = "Validating"
                    /\ UNCHANGED << kind, exitCode >>
    /\ UNCHANGED << fs, archive, rets, opens, extractions >>

\* convert_models: validate_onnx(output_onnx), then the return to main, which
\* calls convert_models for the next kind or goes on after the try block
ConvertModels_Validate ==
    /\ pc = "Validating"
    /\ LET r == validate_onnx(KINDS[kind].out, onnx[kind])
       IN  IF r.raised
           THEN MainExcept(r.text, r.logs,
                           << Event(kind, "Validating", "start"),
                              Event(kind, "Validating", "raise") >>)
           ELSE /\ log' = log \o r.logs
                /\ trace' = trace \o << Event(kind, "Validating", "start"),
                                        Event(kind, "Validating", "end") >>
                /\ IF kind < Len(KINDS)
                   THEN pc' = "Entering" /\ kind' = kind + 1
                   ELSE pc' = "Completing" /\ kind' = kind
                /\ exitCode' = exitCode
    /\ UNCHANGED << fs, archive, onnx, procs, rets, opens, extractions >>

\* main: the three closing lines; the script ends and the process exits with 0
Main_Complete ==
    /\ pc = "Completing"
    /\ log' = log \o << "\nConversion complete!",
                        "Output directory: " \o OUTPUT_DIR,
                        "Validation log saved to: " \o PathStr(LOG_FILE) >>
    /\ exitCode' = 0
    /\ pc' = "Done"
    /\ UNCHANGED << kind, fs, archive, onnx, trace, procs, rets, opens, extractions >>

Next ==
    \/ Main_Start
    \/ ConvertModels_Enter
    \/ ConvertModels_Extract
    \/ ConvertModels_Convert
    \/ ConvertModels_Validate
    \/ Main_Complete

Spec == Init /\ [][Next]_vars

\* every call of the single-threaded script returns, so the run goes on
FairSpec == Spec /\ WF_vars(Next)

-----------------------------------------------------------------------------
(* extract_tar called repeatedly on one (archive, destination) pair *)

ExtractInit ==
    /\ pc = "Harness"
    /\ kind \in KindIds
    /\ exitCode = NoExit
    /\ fs \in SUBSET StemNames
    /\ archive \in Archives
    /\ onnx = [k \in KindIds |-> Absent]
    /\ log = << >>
    /\ trace = << >>
    /\ procs = << >>
    /\ rets = << >>
    /\ opens = 0
    /\ extractions = 0

ExtractCall ==
    /\ pc = "Harness"
    /\ Len(rets) < MaxCalls
    /\ LET r == extract_tar(KINDS[kind].tar, MODEL_DIR, fs, archive[kind])
       IN  /\ fs' = r.fs
           /\ opens' = opens + r.opened
           /\ extractions' = extractions + r.extracted
           /\ rets' = Append(rets, [raised |-> r.raised, path |-> r.path])
           /\ log' = log \o r.logs
    /\ UNCHANGED << pc, kind, exitCode, archive, onnx, trace, procs >>

ExtractNext == ExtractCall

ExtractSpec == ExtractInit /\ [][ExtractNext]_vars

TypeOK ==
    /\ pc \in PcValues
    /\ kind \in KindIds
    /\ exitCode \in {NoExit, 0, 1}
    /\ fs \subseteq EntryNames
    /\ Len(trace) <= 6 * Len(KINDS)

-----------------------------------------------------------------------------
(* Properties *)

Happened(k, stage, ev) == \E i \in 1..Len(trace) : trace[i] = Event(k, stage, ev)

Terminated == pc \in {"Done", "Failed"}

FatalStages == {"Extracting", "Converting"}

LogHas(prefix) == \E i \in 1..Len(log) : StartsWith(log[i], prefix)

ValidationFailed(k) == LogHas("[ERROR] " \o KINDS[k].out.name \o " failed validation")

\* C1: main() exits with 0 exactly when extraction and conversion succeeded
\* for both kinds, and with 1 when extraction or conversion of a kind raised;
\* no exit code while it runs, and validation outcomes do not enter into it.
C1_ExitCode ==
    /\ ~Terminated => exitCode = NoExit
    /\ Terminated =>
        /\ exitCode \in {0, 1}
        /\ exitCode = 0 <=> \A k \in KindIds : \A st \in FatalStages : Happened(k, st, "end")
        /\ (\E k \in KindIds : \E st \in FatalStages : Happened(k, st, "raise"))
               => exitCode = 1
        /\ exitCode = 0 <=> pc = "Done"

\* a run that ends with exit code 0 although both validations failed
C1_Witness ==
    /\ pc = "Done" /\ exitCode = 0
    /\ \A k \in KindIds : ValidationFailed(k)

\* C2: once extraction or conversion of Detection has failed, nothing of
\* Recognition happens: no stage event, no converter invocation, no log line
\* of it; and Detection is not validated.
C2_NoSecondKind ==
    (\E st \in FatalStages : Happened(1, st, "raise")) =>
        /\ \A i \in 1..Len(trace) : trace[i][1] = 1 /\ trace[i][2] # "Validating"
        /\ \A i \in 1..Len(procs) : procs[i].cmd[9] # PathStr(KINDS[2].out)
        /\ Len(rets) <= 1
        /\ \A i \in 1..Len(log) :
              /\ ~Contains(log[i], KINDS[2].name)
              /\ ~Contains(log[i], KINDS[2].out.name)
              /\ ~Contains(log[i], KINDS[2].tar.name)
              /\ ~StartsWith(log[i], "Validating")

\* the run has ended after the conversion of Detection failed
C2_Witness == Terminated /\ Happened(1, "Converting", "raise")

\* C3: no failure leaves validate_onnx: no validation stage ends in a raise,
\* a failed validation is logged as an error, a run is never Failed out of
\* Validating, a run whose only failures are validation failures ends Done
\* with exit code 0, and a validation failure of Detection is followed by the
\* start of the Recognition pipeline.
C3_Safety ==
    /\ \A k \in KindIds : ~Happened(k, "Validating", "raise")
    /\ \A k \in KindIds :
          (Happened(k, "Validating", "end") /\ onnx[k].status # "valid")
              => ValidationFailed(k)
    /\ pc = "Failed" => Last(trace)[2] \in FatalStages
    /\ (Terminated /\ ~\E k \in KindIds : \E st \in FatalStages : Happened(k, st, "raise"))
          => pc = "Done" /\ exitCode = 0

PipelineStarted(k) == \E i \in 1..Len(log) : log[i] = Header(KINDS[k].name)

RECURSIVE Canon(_)
Canon(k) ==
    IF k = 0 THEN << >>
    ELSE Canon(k - 1) \o << Event(k, "Extracting", "start"), Event(k, "Extracting", "end"),
                            Event(k, "Converting", "start"), Event(k, "Converting", "end"),
                            Event(k, "Validating", "start"), Event(k, "Validating", "end") >>

\* the stage events so far are a prefix of Canon, but that the last one may be
\* the raise of an extraction or conversion instead of its end, and then the
\* run is Failed
C8_Order ==
    LET canon == Canon(Len(KINDS))
    IN  /\ Len(trace) <= Len(canon)
        /\ \A i \in 1..Len(trace) :
              \/ trace[i] = canon[i]
              \/ /\ i = Len(trace)
                 /\ trace[i] = Event(canon[i][1], canon[i][2], "raise")
                 /\ canon[i][3] = "end"
                 /\ canon[i][2] \in FatalStages
                 /\ pc = "Failed"
        /\ pc = "Failed" => Len(trace) > 0 /\ Last(trace)[3] = "raise"
        /\ pc = "Done" => trace = canon

\* C8: per kind the stages run in the order Extracting, Converting,
\* Validating, each at most once and each after the previous one has ended;
\* all of Detection comes before any of Recognition; the run ends Done or
\* Failed, and Failed is absorbing.
C8_StageOrdering ==
    /\ []C8_Order
    /\ [][pc = "Failed" => pc' = "Failed"]_vars
    /\ <>Terminated

\* a run through all stages of both kinds
C8_Witness == pc = "Done" /\ Len(trace) = 6 * Len(KINDS)

-----------------------------------------------------------------------------
(* Properties of the single stages *)

EndsWith(s, t) == Len(s) >= Len(t) /\ SubSeq(s, Len(s) - Len(t) + 1, Len(s)) = t

\* C4 (as claimed): after a first extract_tar call that returned, a second call
\* on the same pair returns the same path and re-extracts nothing, whatever
\* the archive holds.
C4_Idempotent ==
    (Len(rets) >= 2 /\ ~rets[1].raised) =>
        /\ ~rets[2].raised
        /\ rets[2].path = rets[1].path
        /\ extractions <= 1
        /\ opens <= 1

ProcOf(k) ==
    LET is == {i \in 1..Len(procs) : procs[i].cmd[9] = PathStr(KINDS[k].out)}
    IN  IF is = {} THEN 0 ELSE CHOOSE i \in is : TRUE

\* C6: after a converter run that ended with a non-zero code the run is
\* Failed with exit code 1, and its last log line is an "[ERROR] Conversion
\* failed" line that contains the captured stderr text, unchanged, at its end.
C6_StderrVerbatim ==
    \A i \in 1..Len(procs) :
        (procs[i].launched /\ procs[i].returncode # 0) =>
            /\ i = Len(procs)
            /\ pc = "Failed"
            /\ exitCode = 1
            /\ StartsWith(Last(log), "[ERROR] Conversion failed")
            /\ Contains(Last(log), procs[i].stderr)
            /\ EndsWith(Last(log), "\n" \o procs[i].stderr)

\* the converter of Detection exited with 1 and stderr "missing op"
C6_Witness ==
    /\ Len(procs) = 1
    /\ procs[1].launched /\ procs[1].returncode = 1 /\ procs[1].stderr = "missing op"
    /\ pc = "Failed"

SizeLogged(k) == LogHas("ONNX model saved: " \o PathStr(KINDS[k].out) \o " (")

ValidationFollows(k) ==
    \/ pc = "Validating" /\ kind = k
    \/ Happened(k, "Validating", "start")

\* C7 (as claimed): paddle_to_onnx fails exactly when the converter process
\* exits with a non-zero code, and after an exit with 0 the size is logged and
\* validation follows.
C7_ExitCodeAlone ==
    \A k \in KindIds :
        ProcOf(k) # 0 =>
            LET p == procs[ProcOf(k)]
            IN  /\ Happened(k, "Converting", "raise") <=> (p.launched /\ p.returncode # 0)
                /\ (p.launched /\ p.returncode = 0) => SizeLogged(k) /\ ValidationFollows(k)

\* C7 (amended): paddle_to_onnx fails exactly when subprocess.run itself
\* raises (the converter cannot be started), or the converter exits with a
\* non-zero code, or it exits with 0 while the size of the output file cannot
\* be read (no file is at the output path); after an exit with 0 with the
\* output file in place the size is logged and validation follows.
C7_ExitCodeAndFile ==
    \A k \in KindIds :
        ProcOf(k) # 0 =>
            LET p == procs[ProcOf(k)]
            IN  /\ Happened(k, "Converting", "raise")
                     <=> (~p.launched \/ p.returncode # 0 \/ onnx[k] = Absent)
                /\ ~Happened(k, "Converting", "raise") <=> Happened(k, "Converting", "end")
                /\ (p.launched /\ p.returncode = 0 /\ onnx[k] # Absent)
                     => SizeLogged(k) /\ ValidationFollows(k)

\* the converter of Recognition exited with 0 and left no output file, and
\* that of Detection exited with 0 with its file in place
C7_Witness ==
    /\ ProcOf(2) # 0
    /\ procs[ProcOf(2)].launched /\ procs[ProcOf(2)].returncode = 0
    /\ onnx[2] = Absent
    /\ pc = "Failed"
    /\ SizeLogged(1)

\* the index of the first log line equal to line, 0 if there is none
IndexOf(line) ==
    LET is == {i \in 1..Len(log) : log[i] = line}
    IN  IF is = {} THEN 0 ELSE CHOOSE i \in is : \A j \in is : i <= j

IsEntry(line, t) == line = "  " \o t.name \o ": " \o t.type

\* C9: the validation of a well-formed file ends without a raise, and what it
\* logs after its "Validating" line is: the "[OK]" line, "Inputs:", one entry
\* per declared input in order, "Outputs:", one entry per declared output in
\* order, and then nothing of that validation; no "[ERROR]" line for the file.
C9_ValidLog ==
    \A k \in KindIds :
        (Happened(k, "Validating", "start") /\ onnx[k].status = "valid") =>
            LET i == IndexOf("Validating " \o KINDS[k].out.name \o "...")
                n == Len(onnx[k].inputs)
                m == Len(onnx[k].outputs)
            IN  /\ Happened(k, "Validating", "end")
                /\ ~Happened(k, "Validating", "raise")
                /\ ~ValidationFailed(k)
                /\ i # 0
                /\ Len(log) >= i + 3 + n + m
                /\ StartsWith(log[i + 1], "[OK] " \o KINDS[k].out.name)
                /\ log[i + 2] = "Inputs:"
                /\ \A j \in 1..n : IsEntry(log[i + 2 + j], onnx[k].inputs[j])
                /\ log[i + 3 + n] = "Outputs:"
                /\ \A j \in 1..m : IsEntry(log[i + 3 + n + j], onnx[k].outputs[j])
                /\ Len(log) > i + 3 + n + m => ~StartsWith(log[i + 4 + n + m], "  ")

\* both validations passed: one file with MaxIO inputs and no output, one with
\* no input and MaxIO outputs
C9_Witness ==
    /\ pc = "Done"
    /\ onnx[1].status = "valid" /\ Len(onnx[1].inputs) = MaxIO /\ Len(onnx[1].outputs) = 0
    /\ onnx[2].status = "valid" /\ Len(onnx[2].inputs) = 0 /\ Len(onnx[2].outputs) = MaxIO

\* the least index in from..to of a log line that contains pat, 0 if none
FindFrom(from, to, pat) ==
    LET is == {i \in from..to : Contains(log[i], pat)}
    IN  IF from = 0 \/ is = {} THEN 0 ELSE CHOOSE i \in is : \A j \in is : i <= j

\* the log lines of the pipeline of kind k: from its header to the next
\* header, or to the end of the log
SegmentStart(k) == IndexOf(Header(KINDS[k].name))
SegmentEnd(k) ==
    LET nexts == {i \in (SegmentStart(k) + 1)..Len(log) : StartsWith(log[i], "\n" \o Rule)}
    IN  IF nexts = {} THEN Len(log) ELSE (CHOOSE i \in nexts : \A j \in nexts : i <= j) - 1

\* the pipeline of kind k ran through: the archive was not extracted before,
\* the converter exited with 0 and left a 2.5 MiB file, a valid model with the
\* one input "x" and the one output "y"
Scenario(k) ==
    /\ Happened(k, "Validating", "end")
    /\ ~LogHas("Already extracted: " \o Stem(KINDS[k].tar))
    /\ ProcOf(k) # 0 /\ procs[ProcOf(k)].returncode = 0
    /\ onnx[k].status = "valid" /\ onnx[k].size = 2621440
    /\ Len(onnx[k].inputs) = 1 /\ onnx[k].inputs[1].name = "x"
    /\ Len(onnx[k].outputs) = 1 /\ onnx[k].outputs[1].name = "y"

\* C10: in that scenario the log of the pipeline holds, in this order, an
\* extraction message, a "Converting" message, a size message with "2.50 MB",
\* an "[OK]" message, "Inputs:" followed by the "x" entry, and "Outputs:"
\* followed by the "y" entry; "Inputs:" and "Outputs:" occur once each.
C10_EndToEnd ==
    \A k \in KindIds :
        Scenario(k) =>
            LET lo == SegmentStart(k)
                hi == SegmentEnd(k)
                a == FindFrom(lo + 1, hi, "Extract")
                b == FindFrom(a + 1, hi, "Converting")
                c == FindFrom(b + 1, hi, "2.50 MB")
                d == FindFrom(c + 1, hi, "[OK]")
                e == FindFrom(d + 1, hi, "Inputs:")
            IN  /\ lo # 0 /\ a # 0 /\ b # 0 /\ c # 0 /\ d # 0 /\ e # 0
                /\ e + 3 <= hi
                /\ StartsWith(log[c], "ONNX model saved")
                /\ StartsWith(log[e + 1], "  x:")
                /\ log[e + 2] = "Outputs:"
                /\ StartsWith(log[e + 3], "  y:")
                /\ Cardinality({i \in lo..hi : log[i] = "Inputs:"}) = 1
                /\ Cardinality({i \in lo..hi : log[i] = "Outputs:"}) = 1
                /\ Cardinality({i \in lo..hi : StartsWith(log[i], "  ")}) = 2

\* the run is Done with both pipelines in the scenario
C10_Witness == pc = "Done" /\ \A k \in KindIds : Scenario(k)

====
